---- MODULE Spec2Model ----
(***************************************************************************)
(* State-machine model of the client-side controllers of the Oriana Cuello *)
(* portfolio page: the Header controller (both variants found in the       *)
(* header file), and the components of js/main.js.                         *)
(*                                                                         *)
(* Every component has its own specification (SpecHeader, ...): the        *)
(* components share no state, so their product is never explored.          *)
(***************************************************************************)
EXTENDS Integers, Sequences, FiniteSets, TLC

VARIABLES
  page,       \* the DOM the Header controller is constructed on (never changes)
  h,          \* Header fields, the DOM facets it writes, and the window scroll state
  preOpenY,   \* history: window scroll offset immediately before the last open
  lastEvent,  \* history: the last event delivered to the page
  st,         \* ScrollAnimations: per statistic, its DOM facets and its animation
  stIO,       \* ScrollAnimations: the observer's view of each statistic and its queue
  img,        \* PerformanceOptimizer: per image, its attributes and classes
  imgIO,      \* PerformanceOptimizer: the image observer's view and its queue
  ft,         \* FooterAnimations: its fields, its timers and the footer's classes
  pf,         \* Portfolio: the items' touched state, the clock and the fingers down
  am,         \* AccessibilityEnhancer: the preference and what the page set for it
  dg,         \* MiniPolaroids: the rectangles and the translation of a decoration
  nv,         \* Header: the active preview images and the pending timers
  app,        \* App: the page it runs on, and the components it constructed
  an,         \* PerformanceOptimizer: the play state of the animated elements
  dc          \* MiniPolaroids: the decorations, the pointer and the errors thrown

headerVars == <<page, h, preOpenY, lastEvent>>
statsVars == <<st, stIO>>
imageVars == <<img, imgIO>>
footerVars == <<ft>>
portfolioVars == <<pf>>
accessVars == <<am>>
dragVars == <<dg>>
navVars == <<nv>>
appVars == <<app>>
animVars == <<an>>
decorVars == <<dc>>

vars ==
  <<page, h, preOpenY, lastEvent, st, stIO, img, imgIO, ft, pf, am, dg, nv, app,
    an, dc>>

\* What a specification of one component leaves alone.
notHeader ==
  <<statsVars, imageVars, footerVars, portfolioVars, accessVars, dragVars,
    navVars, appVars, animVars, decorVars>>
notStats ==
  <<headerVars, imageVars, footerVars, portfolioVars, accessVars,
    dragVars, navVars, appVars, animVars, decorVars>>
notImages ==
  <<headerVars, statsVars, footerVars, portfolioVars, accessVars,
    dragVars, navVars, appVars, animVars, decorVars>>
notFooter ==
  <<headerVars, statsVars, imageVars, portfolioVars, accessVars, dragVars,
    navVars, appVars, animVars, decorVars>>
notPortfolio ==
  <<headerVars, statsVars, imageVars, footerVars, accessVars, dragVars,
    navVars, appVars, animVars, decorVars>>
notAccess ==
  <<headerVars, statsVars, imageVars, footerVars, portfolioVars, dragVars,
    navVars, appVars, animVars, decorVars>>
notDrag ==
  <<headerVars, statsVars, imageVars, footerVars, portfolioVars,
    accessVars, navVars, appVars, animVars, decorVars>>
notNav ==
  <<headerVars, statsVars, imageVars, footerVars, portfolioVars,
    accessVars, dragVars, appVars, animVars, decorVars>>
notApp ==
  <<headerVars, statsVars, imageVars, footerVars, portfolioVars,
    accessVars, dragVars, navVars, animVars, decorVars>>
notAnim ==
  <<headerVars, statsVars, imageVars, footerVars, portfolioVars,
    accessVars, dragVars, navVars, appVars, decorVars>>
notDecor ==
  <<headerVars, statsVars, imageVars, footerVars, portfolioVars,
    accessVars, dragVars, navVars, appVars, animVars>>

Max(a, b) == IF a >= b THEN a ELSE b
Min(a, b) == IF a <= b THEN a ELSE b

(***************************************************************************)
(* Header controller                                                       *)
(***************************************************************************)

\* HEADER_CONFIG
SCROLL_THRESHOLD == 50
DEBOUNCE_DELAY == 16

\* Bounds of the modelled page.
PageMax == 734          \* largest scroll offset of the document, px
SectionTop == 400       \* offsetTop of the section an anchor points to, px
HeaderHeight == 80      \* header.offsetHeight, px
TickMs == 8             \* granularity of the passage of time, ms

Offsets == {0, SCROLL_THRESHOLD, SCROLL_THRESHOLD + 1, PageMax}

\* No smooth scroll in flight.
NoScroll == 0 - 1

\* href attributes, as the characters the handler inspects: a leading "#"
\* followed by the id, or anything else.
Hrefs == { <<>>, <<"#">>, <<"#", "about">>, <<"#", "inicio">>, <<"#", "gone">>,
           <<"page.html">> }
\* The ids the document holds: a section down the page and one at its top.
ElementIds == {"about", "inicio"}

\* href.startsWith('#')
startsWithHash(href) == Len(href) > 0 /\ href[1] = "#"
\* href.substring(1)
targetIdOf(href) == IF Len(href) > 1 THEN href[2] ELSE ""
\* document.getElementById(targetId) found
elementExists(id) == id \in ElementIds
\* targetElement.offsetTop
offsetTopOf(id) == IF id = "about" THEN SectionTop ELSE 0

\* Header.init: nothing is wired when the header element is absent.
initRan_NoGuard(p) == TRUE
initRan(p) == p.hasHeader

\* Header.handleMenuToggle: the early return on a missing toggle (or, in the
\* overlay variant, a missing overlay).
menuWired(p) ==
  /\ initRan(p)
  /\ p.hasToggle
  /\ (p.variant = "overlay" => p.hasOverlay)

\* History: a call made by the handlers of an event, with the offset it was
\* given (0 when it takes none) and whether the body was pinned when it was made.
logCall(s, fn, top) == Append(s.calls, [fn |-> fn, top |-> top, locked |-> s.bodyFixed])

\* The window cannot scroll while the body is pinned with position: fixed;
\* otherwise a requested offset is clamped to the document.
clampScroll(s, y) == IF s.bodyFixed THEN 0 ELSE Max(0, Min(y, PageMax))

\* window.scrollTo(0, y): instant; ends a smooth scroll in flight, and a
\* scroll event follows when the offset changed.
scrollToInstant(s, y) ==
  [s EXCEPT !.scrollY = clampScroll(s, y),
            !.scrollEvt = @ \/ (clampScroll(s, y) # s.scrollY),
            !.smooth = NoScroll,
            !.calls = logCall(s, "scrollTo", y)]

\* window.scrollTo({top: y, behavior: 'smooth'}): the offset moves later.
scrollToSmooth(s, y) ==
  [s EXCEPT !.smooth = clampScroll(s, y),
            !.calls = logCall(s, "scrollToSmooth", y)]

\* Header.disableScroll
disableScroll(s) ==
  [s EXCEPT !.scrollPosition = s.scrollY,
            !.rootMenuOpen = TRUE,
            !.bodyFixed = TRUE,
            !.bodyTop = 0 - s.scrollY,
            !.bodyOverflowHidden = TRUE,
            !.scrollY = 0,
            !.scrollEvt = @ \/ (s.scrollY # 0),
            !.calls = logCall(s, "disableScroll", 0)]

\* Header.enableScroll
enableScroll_NoRestore(s) ==
  [s EXCEPT !.rootMenuOpen = FALSE,
            !.bodyFixed = FALSE,
            !.bodyTop = 0,
            !.bodyOverflowHidden = FALSE,
            !.calls = logCall(s, "enableScroll", 0)]
enableScroll(s) ==
  scrollToInstant([s EXCEPT !.rootMenuOpen = FALSE,
                            !.bodyFixed = FALSE,
                            !.bodyTop = 0,
                            !.bodyOverflowHidden = FALSE,
                            !.calls = logCall(s, "enableScroll", 0)],
                  s.scrollPosition)

boolAttr(b) == IF b THEN "true" ELSE "false"
menuLabel(open) == IF open THEN "Cerrar menu" ELSE "Abrir menu"

\* Header.toggleMenu, overlay variant
toggleMenuOverlay(s) ==
  LET t == [s EXCEPT !.isMenuOpen = ~s.isMenuOpen,
                     !.toggleActive = ~s.toggleActive,
                     !.ariaExpanded = boolAttr(~s.isMenuOpen),
                     !.overlayActive = ~s.overlayActive,
                     !.headerMenuOpen = ~s.headerMenuOpen,
                     !.ariaLabel = menuLabel(~s.isMenuOpen),
                     !.calls = logCall(s, "toggleMenu", 0)]
  IN IF t.isMenuOpen THEN disableScroll(t) ELSE enableScroll(t)

\* Header.toggleMenu, simple variant
toggleMenuSimple(s) ==
  [s EXCEPT !.isMenuOpen = ~s.isMenuOpen,
            !.toggleActive = ~s.toggleActive,
            !.ariaExpanded = boolAttr(~s.isMenuOpen),
            !.ariaLabel = menuLabel(~s.isMenuOpen),
            !.bodyOverflowHidden = ~s.isMenuOpen,
            !.calls = logCall(s, "toggleMenu", 0)]

toggleMenu(p, s) ==
  IF p.variant = "overlay" THEN toggleMenuOverlay(s) ELSE toggleMenuSimple(s)

\* Header.closeMenu, overlay variant
closeMenuOverlay_KeepsOverlay(s) ==
  enableScroll([s EXCEPT !.isMenuOpen = FALSE,
                         !.toggleActive = FALSE,
                         !.headerMenuOpen = FALSE,
                         !.ariaExpanded = "false",
                         !.ariaLabel = menuLabel(FALSE),
                         !.calls = logCall(s, "closeMenu", 0)])
closeMenuOverlay(s) ==
  enableScroll([s EXCEPT !.isMenuOpen = FALSE,
                         !.toggleActive = FALSE,
                         !.overlayActive = FALSE,
                         !.headerMenuOpen = FALSE,
                         !.ariaExpanded = "false",
                         !.ariaLabel = menuLabel(FALSE),
                         !.calls = logCall(s, "closeMenu", 0)])

\* Header.closeMenu, simple variant
closeMenuSimple(s) ==
  [s EXCEPT !.isMenuOpen = FALSE,
            !.toggleActive = FALSE,
            !.ariaExpanded = "false",
            !.ariaLabel = menuLabel(FALSE),
            !.bodyOverflowHidden = FALSE,
            !.calls = logCall(s, "closeMenu", 0)]

closeMenu(p, s) ==
  IF p.variant = "overlay" THEN closeMenuOverlay(s) ELSE closeMenuSimple(s)

\* The function handleScroll wraps in throttle: this.header is dereferenced,
\* which throws when there is no header.
scrollFunc(p, s) ==
  IF ~p.hasHeader
  THEN [s EXCEPT !.threw = TRUE]
  ELSE [s EXCEPT !.scrolled = (s.scrollY > SCROLL_THRESHOLD),
                 !.calls = logCall(s, "scrollHandler", 0)]

\* Header.throttle: the returned wrapper. (sinceCall is history: the time
\* since func was last applied.)
throttled_NoWindow(p, s) ==
  [scrollFunc(p, s) EXCEPT !.sinceCall = 0]
throttled(p, s) ==
  IF ~s.inThrottle
  THEN [scrollFunc(p, s) EXCEPT !.inThrottle = TRUE,
                                !.throttleTimer = DEBOUNCE_DELAY,
                                !.sinceCall = 0]
  ELSE s

\* The click listener handleSmoothScroll puts on a link or a navigation item.
smoothScrollClick(p, s, href) ==
  IF startsWithHash(href) /\ elementExists(targetIdOf(href))
  THEN LET a == scrollToSmooth(s, offsetTopOf(targetIdOf(href)) - HeaderHeight)
           b == IF a.isMenuOpen THEN closeMenu(p, a) ELSE a
       IN [b EXCEPT !.hash = href, !.calls = logCall(b, "pushState", 0)]
  ELSE s

\* The click listener handleMenuToggle puts on the document (simple variant):
\* a click that lands outside the toggle closes an open menu.
outsideClick_WrongGuard(p, s) ==
  IF p.variant = "simple" /\ menuWired(p) /\ ~s.isMenuOpen
  THEN closeMenu(p, s)
  ELSE s
outsideClick(p, s) ==
  IF p.variant = "simple" /\ menuWired(p) /\ s.isMenuOpen
  THEN closeMenu(p, s)
  ELSE s

\* What the browser does with a click on a fragment link nobody intercepts.
defaultJump(s, href) ==
  IF startsWithHash(href) /\ elementExists(targetIdOf(href))
  THEN [scrollToInstant(s, offsetTopOf(targetIdOf(href))) EXCEPT !.hash = href,
                                                                !.calls = <<>>]
  ELSE s

Pages ==
  { p \in [variant : {"overlay", "simple"}, hasHeader : BOOLEAN,
           hasToggle : BOOLEAN, hasOverlay : BOOLEAN] :
      p.variant = "simple" => ~p.hasOverlay }

\* The state new Header() leaves, on a page that may already be scrolled.
headerInit(y, evt) ==
  [ isMenuOpen |-> FALSE, scrollPosition |-> 0,
    scrollY |-> y, scrollEvt |-> evt, smooth |-> NoScroll,
    scrolled |-> FALSE, headerMenuOpen |-> FALSE,
    toggleActive |-> FALSE, ariaExpanded |-> "false", ariaLabel |-> menuLabel(FALSE),
    overlayActive |-> FALSE,
    rootMenuOpen |-> FALSE, bodyFixed |-> FALSE, bodyTop |-> 0,
    bodyOverflowHidden |-> FALSE,
    inThrottle |-> FALSE, throttleTimer |-> 0, sinceCall |-> DEBOUNCE_DELAY,
    hash |-> <<>>, threw |-> FALSE, calls |-> <<>> ]

\* The state an event finds: the history of calls starts anew.
atEvent(s) == [s EXCEPT !.calls = <<>>]

InitHeader ==
  /\ page \in Pages
  /\ \E y \in Offsets, evt \in BOOLEAN :
       /\ (evt => y # 0)
       /\ h = headerInit(y, evt)
  /\ preOpenY = 0
  /\ lastEvent = "load"

\* The user scrolls the page (wheel, touch, keyboard): impossible while the
\* body is pinned or its overflow hidden.
UserScroll ==
  /\ ~h.bodyFixed /\ ~h.bodyOverflowHidden
  /\ \E y \in Offsets :
       /\ y # h.scrollY
       /\ h' = [h EXCEPT !.scrollY = y, !.scrollEvt = TRUE, !.smooth = NoScroll,
                         !.calls = <<>>]
  /\ lastEvent' = "scroll"
  /\ UNCHANGED <<page, preOpenY, notHeader>>

\* A smooth scroll in flight arrives.
SmoothScrollStep ==
  /\ h.smooth # NoScroll
  /\ h' = [h EXCEPT !.scrollY = clampScroll(h, h.smooth),
                    !.scrollEvt = @ \/ (clampScroll(h, h.smooth) # h.scrollY),
                    !.smooth = NoScroll,
                    !.calls = <<>>]
  /\ lastEvent' = "smooth"
  /\ UNCHANGED <<page, preOpenY, notHeader>>

\* The browser delivers the scroll event to the listener of handleScroll.
DispatchScroll ==
  /\ h.scrollEvt
  /\ h' = IF initRan(page)
          THEN throttled(page, [atEvent(h) EXCEPT !.scrollEvt = FALSE])
          ELSE [atEvent(h) EXCEPT !.scrollEvt = FALSE]
  /\ lastEvent' = "scrollEvent"
  /\ UNCHANGED <<page, preOpenY, notHeader>>

\* Time passes.
Tick ==
  /\ h.throttleTimer > 0
  /\ h' = [h EXCEPT !.throttleTimer = Max(0, @ - TickMs),
                    !.sinceCall = Min(DEBOUNCE_DELAY, @ + TickMs)]
  /\ UNCHANGED <<page, preOpenY, lastEvent, notHeader>>

\* The timer of throttle fires.
ThrottleTimeout ==
  /\ h.inThrottle /\ h.throttleTimer = 0
  /\ h' = [h EXCEPT !.inThrottle = FALSE]
  /\ UNCHANGED <<page, preOpenY, lastEvent, notHeader>>

\* A click on the menu toggle.
ClickToggle ==
  /\ page.hasToggle
  /\ h' = IF menuWired(page) THEN toggleMenu(page, atEvent(h)) ELSE atEvent(h)
  /\ preOpenY' = IF menuWired(page) /\ ~h.isMenuOpen THEN h.scrollY ELSE preOpenY
  /\ lastEvent' = "toggle"
  /\ UNCHANGED <<page, notHeader>>

\* A click on a navigation item of the overlay: the listener of
\* handleMenuToggle runs first, then the one of handleSmoothScroll.
NavItemClick(href) ==
  /\ page.variant = "overlay"
  /\ h' = IF initRan(page)
          THEN smoothScrollClick(page,
                 IF menuWired(page) THEN closeMenu(page, atEvent(h)) ELSE atEvent(h),
                 href)
          ELSE defaultJump(h, href)
  /\ lastEvent' = "navItem"
  /\ UNCHANGED <<page, preOpenY, notHeader>>

ClickNavItem == \E href \in Hrefs : NavItemClick(href)

\* A click on a navigation link: its own listener, then (simple variant)
\* the document's.
NavLinkClick(href) ==
  /\ h' = IF initRan(page)
          THEN outsideClick(page, smoothScrollClick(page, atEvent(h), href))
          ELSE defaultJump(h, href)
  /\ lastEvent' = "navLink"
  /\ UNCHANGED <<page, preOpenY, notHeader>>

ClickNavLink == \E href \in Hrefs : NavLinkClick(href)

\* A click anywhere else on the document.
ClickOutside ==
  /\ h' = outsideClick(page, atEvent(h))
  /\ lastEvent' = "outside"
  /\ UNCHANGED <<page, preOpenY, notHeader>>

\* The Escape key.
KeyEscape ==
  /\ h' = IF menuWired(page) /\ h.isMenuOpen THEN closeMenu(page, atEvent(h))
          ELSE atEvent(h)
  /\ lastEvent' = "escape"
  /\ UNCHANGED <<page, preOpenY, notHeader>>

NextHeader ==
  \/ UserScroll
  \/ SmoothScrollStep
  \/ DispatchScroll
  \/ Tick
  \/ ThrottleTimeout
  \/ ClickToggle
  \/ ClickNavItem
  \/ ClickNavLink
  \/ ClickOutside
  \/ KeyEscape

\* The Header controller as the other specifications see it: untouched.
IdleHeader ==
  /\ page = [variant |-> "overlay", hasHeader |-> TRUE, hasToggle |-> TRUE,
             hasOverlay |-> TRUE]
  /\ h = headerInit(0, FALSE)
  /\ preOpenY = 0
  /\ lastEvent = "load"

(***************************************************************************)
(* ScrollAnimations: the counters of the statistics                        *)
(***************************************************************************)

\* Bounds.
MaxQueue == 2           \* intersection entries waiting for one delivery
FrameMs == 250          \* gap between two animation frames, ms
StartSkew == 50         \* how far a frame's timestamp may precede performance.now()

\* animateNumber: duration
Duration == 1000

\* The statistic elements of the page.
StatIds == {1, 2}

DigitChars == <<"0", "1", "2", "3", "4", "5", "6", "7", "8", "9">>
isDigit(c) == \E i \in 1..10 : DigitChars[i] = c
digitVal(c) == (CHOOSE i \in 1..10 : DigitChars[i] = c) - 1

\* The text of a .stat__number: digits with a suffix, the same with a leading
\* zero, and no digit at all.
Texts == { <<"2", "5", "0", "+">>, <<"0", "7", "%">>, <<"+">> }

\* No number: what parseInt gives for a string without digits.
NaN == 0 - 1

\* finalNumber.replace(/[^\d]/g, '')
onlyDigits(text) == SelectSeq(text, isDigit)
\* finalNumber.replace(/[\d]/g, '')
noDigits(text) == SelectSeq(text, LAMBDA c : ~isDigit(c))

RECURSIVE digitsValue(_)
digitsValue(ds) ==
  IF ds = <<>> THEN 0
  ELSE 10 * digitsValue(SubSeq(ds, 1, Len(ds) - 1)) + digitVal(ds[Len(ds)])

\* parseInt of a string of digits
parseInt(ds) == IF ds = <<>> THEN NaN ELSE digitsValue(ds)

RECURSIVE natToStr(_)
natToStr(n) ==
  IF n < 10 THEN <<DigitChars[n + 1]>>
  ELSE natToStr(n \div 10) \o <<DigitChars[(n % 10) + 1]>>

\* String(current), as `current + suffix` converts it
numToStr(n) == IF n < 0 THEN <<"-">> \o natToStr(0 - n) ELSE natToStr(n)

\* Math.min(elapsed / duration, 1), in ms
progressMs(elapsed) == Min(elapsed, Duration)

\* Math.floor(numericValue * easeOut(progress)) with
\* easeOut(t) = 1 - (1 - t)^3 and t = p / Duration, in exact arithmetic:
\* floor(n * (D^3 - (D - p)^3) / D^3), split so that no product leaves 32 bits.
easedValue(n, p) ==
  LET a == Duration ^ 3 - (Duration - p) ^ 3
  IN (n * (a \div 1000) + (n * (a % 1000)) \div 1000) \div ((Duration ^ 3) \div 1000)

\* A statistic before its animation.
statInit(text, hasNumber) ==
  [ text |-> text, hasNumber |-> hasNumber, animated |-> FALSE,
    running |-> FALSE, finalNumber |-> <<>>, numericValue |-> 0, suffix |-> <<>>,
    current |-> 0, elapsed |-> 0, framed |-> FALSE,
    starts |-> 0, intersections |-> 0 ]

\* animateNumber without the isNaN return of line 120.
animateNumber_NoNaNCheck(e) ==
  LET called == [e EXCEPT !.starts = @ + 1]
      value == parseInt(onlyDigits(e.text))
  IN IF ~e.hasNumber THEN called
     ELSE [called EXCEPT !.finalNumber = e.text,
                         !.numericValue = value,
                         !.suffix = noDigits(e.text),
                         !.current = 0, !.elapsed = 0, !.framed = FALSE,
                         !.running = TRUE]

\* ScrollAnimations.animateNumber, up to the first requestAnimationFrame.
animateNumber(e) ==
  LET called == [e EXCEPT !.starts = @ + 1]
      value == parseInt(onlyDigits(e.text))
  IN IF ~e.hasNumber THEN called
     ELSE IF value = NaN THEN called
     ELSE [called EXCEPT !.finalNumber = e.text,
                         !.numericValue = value,
                         !.suffix = noDigits(e.text),
                         !.current = 0, !.elapsed = 0, !.framed = FALSE,
                         !.running = TRUE]

\* The observer's callback on one entry.
\* (starts and intersections are history: the calls of animateNumber, and the
\* intersecting entries handled so far, counted up to two.)
sawEntry(e, isIntersecting) ==
  [e EXCEPT !.intersections = IF isIntersecting THEN Min(@ + 1, 2) ELSE @]
statEntry_NoGuard(e, isIntersecting) ==
  IF isIntersecting
  THEN animateNumber([sawEntry(e, isIntersecting) EXCEPT !.animated = TRUE])
  ELSE sawEntry(e, isIntersecting)
statEntry(e, isIntersecting) ==
  IF isIntersecting /\ ~e.animated
  THEN animateNumber([sawEntry(e, isIntersecting) EXCEPT !.animated = TRUE])
  ELSE sawEntry(e, isIntersecting)

\* entries.forEach of the observer's callback.
RECURSIVE statEntries(_, _)
statEntries(s, entries) ==
  IF entries = <<>> THEN s
  ELSE LET en == Head(entries)
       IN statEntries([s EXCEPT ![en.target] = statEntry(s[en.target], en.isIntersecting)],
                      Tail(entries))

\* updateNumber, the frame callback, called with a timestamp `elapsed` ms
\* after startTime.
updateNumber_NoFinalWrite(e, elapsed) ==
  LET cur == easedValue(e.numericValue, progressMs(elapsed))
  IN [e EXCEPT !.current = cur, !.elapsed = elapsed, !.framed = TRUE,
               !.text = numToStr(cur) \o e.suffix,
               !.running = (progressMs(elapsed) < Duration)]
updateNumber(e, elapsed) ==
  LET cur == easedValue(e.numericValue, progressMs(elapsed))
  IN [e EXCEPT !.current = cur, !.elapsed = elapsed, !.framed = TRUE,
               !.text = IF progressMs(elapsed) < Duration
                        THEN numToStr(cur) \o e.suffix
                        ELSE e.finalNumber,
               !.running = (progressMs(elapsed) < Duration)]

\* observeElements: the observer reports every statistic once, as it finds it.
RECURSIVE firstEntries(_, _)
firstEntries(inView, n) ==
  IF n = 0 THEN <<>>
  ELSE Append(firstEntries(inView, n - 1), [target |-> n, isIntersecting |-> inView[n]])

InitStats ==
  /\ st \in [StatIds -> {statInit(t, TRUE) : t \in Texts} \cup {statInit(<<>>, FALSE)}]
  /\ \E inView \in [StatIds -> BOOLEAN] :
       stIO = [inView |-> inView, queue |-> firstEntries(inView, Cardinality(StatIds))]

IdleStats ==
  /\ st = [e \in StatIds |-> statInit(<<"2", "5", "0", "+">>, TRUE)]
  /\ stIO = [inView |-> [e \in StatIds |-> FALSE], queue |-> <<>>]

\* A statistic crosses the observer's threshold: an entry is queued.
StatCrossesViewport ==
  /\ Len(stIO.queue) < MaxQueue
  /\ \E e \in StatIds :
       stIO' = [inView |-> [stIO.inView EXCEPT ![e] = ~@],
                queue |-> Append(stIO.queue,
                                 [target |-> e, isIntersecting |-> ~stIO.inView[e]])]
  /\ UNCHANGED <<st, notStats>>

\* The observer delivers what it queued, in one call of the callback.
StatDeliver ==
  /\ stIO.queue # <<>>
  /\ st' = statEntries(st, stIO.queue)
  /\ stIO' = [stIO EXCEPT !.queue = <<>>]
  /\ UNCHANGED notStats

\* An animation frame of one running counter. The first timestamp may lie
\* before startTime; later ones never decrease.
StatFrame ==
  /\ \E e \in StatIds :
       /\ st[e].running
       /\ \E elapsed \in IF ~st[e].framed
                         THEN {0 - StartSkew, FrameMs}
                         ELSE {st[e].elapsed, st[e].elapsed + FrameMs,
                               st[e].elapsed + 2 * FrameMs} :
            st' = [st EXCEPT ![e] = updateNumber(st[e], elapsed)]
  /\ UNCHANGED <<stIO, notStats>>

NextStats ==
  \/ StatCrossesViewport
  \/ StatDeliver
  \/ StatFrame

(***************************************************************************)
(* PerformanceOptimizer: lazy loading of the images                        *)
(***************************************************************************)

\* The img elements of the page.
ImgIds == {1, 2}

\* A data-src attribute: absent, empty, or naming the real image.
NoAttr == [present |-> FALSE, value |-> ""]
DataSrcs == { NoAttr, [present |-> TRUE, value |-> ""],
              [present |-> TRUE, value |-> "full.jpg"] }

\* if (img.dataset.src): the attribute is there and not the empty string.
truthy(attr) == attr.present /\ attr.value # ""

\* An image as the document delivers it. (html keeps what it was delivered
\* with; srcWrites and handled are history: the assignments to src, and the
\* intersecting entries handled, counted up to two.)
imgInit(dataSrc) ==
  [ src |-> "thumb.jpg", dataSrc |-> dataSrc, loaded |-> FALSE, observed |-> TRUE,
    html |-> [src |-> "thumb.jpg", dataSrc |-> dataSrc],
    srcWrites |-> 0, handled |-> 0 ]

\* The body of `if (entry.isIntersecting)` in lazyLoadImages.
loadImage(i) ==
  LET promoted == IF truthy(i.dataSrc)
                  THEN [i EXCEPT !.src = i.dataSrc.value,
                                 !.dataSrc = NoAttr,
                                 !.srcWrites = Min(@ + 1, 2)]
                  ELSE i
  IN [promoted EXCEPT !.loaded = TRUE, !.observed = FALSE]

\* The image observer's callback on one entry.
imgEntry_NoIntersectCheck(i, isIntersecting) ==
  [loadImage(i) EXCEPT !.handled = IF isIntersecting THEN Min(@ + 1, 2) ELSE @]
imgEntry(i, isIntersecting) ==
  IF isIntersecting
  THEN [loadImage(i) EXCEPT !.handled = Min(@ + 1, 2)]
  ELSE i

\* entries.forEach of the image observer's callback.
RECURSIVE imgEntries(_, _)
imgEntries(s, entries) ==
  IF entries = <<>> THEN s
  ELSE LET en == Head(entries)
       IN imgEntries([s EXCEPT ![en.target] = imgEntry(s[en.target], en.isIntersecting)],
                     Tail(entries))

\* imageObserver.observe(img) for every image: the observer reports each once.
RECURSIVE firstImgEntries(_, _)
firstImgEntries(inView, n) ==
  IF n = 0 THEN <<>>
  ELSE Append(firstImgEntries(inView, n - 1),
              [target |-> n, isIntersecting |-> inView[n]])

\* 'IntersectionObserver' in window decides whether anything is observed.
InitImages ==
  /\ \E hasIO \in BOOLEAN, inView \in [ImgIds -> BOOLEAN] :
       imgIO = [ hasIO |-> hasIO, inView |-> inView,
                 queue |-> IF hasIO THEN firstImgEntries(inView, Cardinality(ImgIds))
                           ELSE <<>> ]
  /\ \E d \in [ImgIds -> DataSrcs] :
       img = [i \in ImgIds |-> [imgInit(d[i]) EXCEPT !.observed = imgIO.hasIO]]

IdleImages ==
  /\ imgIO = [hasIO |-> TRUE, inView |-> [i \in ImgIds |-> FALSE], queue |-> <<>>]
  /\ img = [i \in ImgIds |-> imgInit(NoAttr)]

\* An image crosses the viewport: the observer queues an entry if it still
\* observes the image.
ImgCrossesViewport ==
  /\ \E i \in ImgIds :
       /\ img[i].observed => Len(imgIO.queue) < MaxQueue + 1
       /\ imgIO' = [imgIO EXCEPT
                      !.inView[i] = ~@,
                      !.queue = IF img[i].observed
                                THEN Append(@, [target |-> i,
                                                isIntersecting |-> ~imgIO.inView[i]])
                                ELSE @]
  /\ UNCHANGED <<img, notImages>>

\* The image observer delivers what it queued, in one call of the callback.
ImgDeliver ==
  /\ imgIO.queue # <<>>
  /\ img' = imgEntries(img, imgIO.queue)
  /\ imgIO' = [imgIO EXCEPT !.queue = <<>>]
  /\ UNCHANGED notImages

NextImages ==
  \/ ImgCrossesViewport
  \/ ImgDeliver

(***************************************************************************)
(* FooterAnimations: the reveal of the footer                              *)
(***************************************************************************)

\* Bound: the .letter elements of the footer's large text.
LetterCount == 3

\* CONFIG.FOOTER_ANIMATION_DELAY, and the delays of the letters' timers.
FOOTER_ANIMATION_DELAY == 100
LetterBase == 500
LetterStep == 100

Letters == 0..(LetterCount - 1)

\* The timers with the delays of the letters in the opposite order.
footerTimers_LettersReversed ==
  {[kind |-> "top", index |-> 0, delay |-> FOOTER_ANIMATION_DELAY]}
    \cup {[kind |-> "letter", index |-> i,
           delay |-> LetterBase + (LetterCount - 1 - i) * LetterStep] :
            i \in Letters}

\* The timers triggerAnimations starts, each with its delay.
footerTimers ==
  {[kind |-> "top", index |-> 0, delay |-> FOOTER_ANIMATION_DELAY]}
    \cup {[kind |-> "letter", index |-> i, delay |-> LetterBase + i * LetterStep] :
            i \in Letters}

\* FooterAnimations.triggerAnimations. (triggers and scheduled are history:
\* the calls, counted up to two, and the timers ever started.)
triggerAnimations(f) ==
  [f EXCEPT !.pending = @ \cup footerTimers,
            !.triggers = Min(@ + 1, 2),
            !.scheduled = Min(@ + Cardinality(footerTimers), 2 * Cardinality(footerTimers))]

\* The observer's callback on one entry. (intersections is history: the
\* intersecting entries handled, counted up to two.)
footerEntry_NoFlag(f, isIntersecting) ==
  IF isIntersecting
  THEN [triggerAnimations(f) EXCEPT !.isAnimated = TRUE,
                                    !.intersections = Min(@ + 1, 2)]
  ELSE f
footerEntry(f, isIntersecting) ==
  IF isIntersecting /\ ~f.isAnimated
  THEN [triggerAnimations(f) EXCEPT !.isAnimated = TRUE,
                                    !.intersections = Min(@ + 1, 2)]
  ELSE [f EXCEPT !.intersections = IF isIntersecting THEN Min(@ + 1, 2) ELSE @]

\* entries.forEach of the footer observer's callback.
RECURSIVE footerEntries(_, _)
footerEntries(f, entries) ==
  IF entries = <<>> THEN f
  ELSE footerEntries(footerEntry(f, Head(entries)), Tail(entries))

\* The callback of one timer.
timerFired(f, t) ==
  LET g == [f EXCEPT !.pending = @ \ {t}]
  IN IF t.kind = "top"
     THEN [g EXCEPT !.topAnimate = f.hasTop]
     ELSE [g EXCEPT !.lettersAnimate = @ \cup {t.index}]

\* The state new FooterAnimations() leaves: the footer, if there is one, is
\* observed, and the observer reports it once.
footerInit(hasFooter, hasTop, inView) ==
  [ hasFooter |-> hasFooter, hasTop |-> hasTop,
    isAnimated |-> FALSE, pending |-> {}, topAnimate |-> FALSE, lettersAnimate |-> {},
    inView |-> inView, queue |-> IF hasFooter THEN <<inView>> ELSE <<>>,
    triggers |-> 0, scheduled |-> 0, intersections |-> 0 ]

InitFooter ==
  \E hasFooter \in BOOLEAN, hasTop \in BOOLEAN, inView \in BOOLEAN :
    ft = footerInit(hasFooter, hasTop, inView)

IdleFooter == ft = footerInit(TRUE, TRUE, FALSE)

\* The footer crosses the observer's threshold.
FooterCrossesViewport ==
  /\ ft.hasFooter => Len(ft.queue) < MaxQueue + 1
  /\ ft' = [ft EXCEPT !.inView = ~@,
                      !.queue = IF ft.hasFooter THEN Append(@, ~ft.inView) ELSE @]
  /\ UNCHANGED notFooter

\* The footer observer delivers what it queued, in one call of the callback.
FooterDeliver ==
  /\ ft.queue # <<>>
  /\ ft' = [footerEntries(ft, ft.queue) EXCEPT !.queue = <<>>]
  /\ UNCHANGED notFooter

\* The pending timer that is due first fires.
FooterTimeout ==
  /\ \E t \in ft.pending :
       /\ \A u \in ft.pending : t.delay <= u.delay
       /\ ft' = timerFired(ft, t)
  /\ UNCHANGED notFooter

NextFooter ==
  \/ FooterCrossesViewport
  \/ FooterDeliver
  \/ FooterTimeout

(***************************************************************************)
(* Portfolio: touch interactions                                           *)
(***************************************************************************)

\* Bounds.
TouchStep == 100        \* granularity of Date.now(), ms
MaxNow == 400           \* the last instant of the modelled session, ms

\* A tap is a touch shorter than this.
TapLimit == 200

\* The portfolio items of the page, and the fingers of the user.
Items == {1, 2}
Fingers == {1, 2}

\* A finger that is up.
FingerUp == [down |-> FALSE, item |-> 0, start |-> 0]

\* The touchstart listener of an item.
touchstart(p, i) == [p EXCEPT !.touchStartTime[i] = p.now]

\* The touchend listener of an item.
touchend_KeepsOthers(p, i) ==
  IF p.now - p.touchStartTime[i] < TapLimit
  THEN [p EXCEPT !.touched[i] = ~@]
  ELSE p
touchend(p, i) ==
  IF p.now - p.touchStartTime[i] < TapLimit
  THEN [p EXCEPT !.touched = [j \in Items |-> IF j = i THEN ~p.touched[i] ELSE FALSE]]
  ELSE p

\* The state new Portfolio() leaves. (before is history: the touched
\* classes as the last touchend found them.)
portfolioInit ==
  [ touched |-> [i \in Items |-> FALSE],
    touchStartTime |-> [i \in Items |-> 0],
    now |-> 0,
    fingers |-> [t \in Fingers |-> FingerUp],
    before |-> [i \in Items |-> FALSE] ]

InitPortfolio == pf = portfolioInit

IdlePortfolio == pf = portfolioInit

\* Time passes.
TouchTimePasses ==
  /\ pf.now + TouchStep <= MaxNow
  /\ pf' = [pf EXCEPT !.now = @ + TouchStep]
  /\ UNCHANGED notPortfolio

\* A finger comes down on an item: touchstart is dispatched to the item.
TouchStart ==
  /\ \E t \in Fingers, i \in Items :
       /\ ~pf.fingers[t].down
       /\ pf' = [touchstart(pf, i) EXCEPT
                   !.fingers[t] = [down |-> TRUE, item |-> i, start |-> pf.now]]
  /\ UNCHANGED notPortfolio

\* A finger is lifted: touchend is dispatched to the item it came down on.
TouchEnd ==
  /\ \E t \in Fingers :
       /\ pf.fingers[t].down
       /\ pf' = [touchend(pf, pf.fingers[t].item) EXCEPT !.fingers[t] = FingerUp,
                                                        !.before = pf.touched]
  /\ UNCHANGED notPortfolio

NextPortfolio ==
  \/ TouchTimePasses
  \/ TouchStart
  \/ TouchEnd

(***************************************************************************)
(* AccessibilityEnhancer                                                   *)
(***************************************************************************)

\* The custom properties handleReducedMotion sets.
DurationVars ==
  { "--animation-duration-fast", "--animation-duration-normal",
    "--animation-duration-slow", "--animation-duration-image-slide",
    "--animation-duration-marquee" }

\* AccessibilityEnhancer.handleReducedMotion: the properties set to '0ms'.
handleReducedMotion(matches) == IF matches THEN DurationVars ELSE {}

\* AccessibilityEnhancer.addAriaLabels: the items that get an aria-label.
addAriaLabels(titled) == titled

\* The state new AccessibilityEnhancer() leaves, on a page where the items
\* of `titled` have a title, with or without a marquee, and with the
\* reduced-motion query matching or not.
accessInit(matches, titled, hasMarquee) ==
  [ prefersReduced |-> matches,
    zeroed |-> handleReducedMotion(matches),
    keyboardNavigation |-> FALSE,
    labelled |-> addAriaLabels(titled),
    marqueeRole |-> hasMarquee,
    lastKey |-> "none" ]

InitAccess ==
  \E matches \in BOOLEAN, titled \in SUBSET Items, hasMarquee \in BOOLEAN :
    am = accessInit(matches, titled, hasMarquee)

IdleAccess == am = accessInit(FALSE, {}, FALSE)

\* The user switches the reduced-motion preference of the system: the media
\* query changes its answer; no listener of the page is called.
MotionPreferenceChanges ==
  /\ am' = [am EXCEPT !.prefersReduced = ~@]
  /\ UNCHANGED notAccess

\* A key goes down: the keydown listener of improveKeyboardNavigation.
KeyDown ==
  /\ \E key \in {"Tab", "Enter", "a"} :
       am' = [am EXCEPT !.keyboardNavigation = @ \/ (key = "Tab"),
                        !.lastKey = key]
  /\ UNCHANGED notAccess

\* A mouse button goes down: the mousedown listener.
MouseDown ==
  /\ am' = [am EXCEPT !.keyboardNavigation = FALSE, !.lastKey = "mouse"]
  /\ UNCHANGED notAccess

NextAccess ==
  \/ MotionPreferenceChanges
  \/ KeyDown
  \/ MouseDown

(***************************************************************************)
(* MiniPolaroids: the constraint of dragMove                               *)
(***************************************************************************)

\* Bound: the largest width or height of a rectangle, px.
MaxSize == 3

\* Widths and heights of the container and of the element, and the
\* translations the pointer asks for before they are constrained.
Sizes == 0 .. MaxSize
RawOffsets == (0 - 1) .. (MaxSize + 1)

\* The largest translation on an axis: maxX, maxY of dragMove.
maxOffset(containerSize, elementSize) == containerSize - elementSize

\* Math.max(0, Math.min(current, max)).
constrain_NoUpperBound(current, maxV) == Max(0, current)
constrain(current, maxV) == Max(0, Min(current, maxV))

\* The part of dragMove from the bounding rectangles to xOffset, yOffset:
\* the translation written for the unconstrained translation (rawX, rawY).
constrainMove(d, rawX, rawY) ==
  [d EXCEPT !.rawX = rawX, !.rawY = rawY,
            !.x = constrain(rawX, maxOffset(d.cw, d.ew)),
            !.y = constrain(rawY, maxOffset(d.ch, d.eh)),
            !.moved = TRUE]

\* An element of ew x eh in a container of cw x ch, before any drag.
dragInit(cw, ch, ew, eh) ==
  [ cw |-> cw, ch |-> ch, ew |-> ew, eh |-> eh,
    rawX |-> 0, rawY |-> 0, x |-> 0, y |-> 0, moved |-> FALSE ]

InitDrag == \E cw \in Sizes, ch \in Sizes, ew \in Sizes, eh \in Sizes :
              dg = dragInit(cw, ch, ew, eh)

IdleDrag == dg = dragInit(0, 0, 0, 0)

\* The constraint is applied to an unconstrained translation.
ConstrainMove ==
  /\ \E rawX \in RawOffsets, rawY \in RawOffsets :
       dg' = constrainMove(dg, rawX, rawY)
  /\ UNCHANGED notDrag

NextDrag == ConstrainMove


(***************************************************************************)
(* Header: the preview images of the navigation overlay                    *)
(***************************************************************************)

\* Bound: granularity of the passage of time while timers are pending, ms.
HoverStep == 50

\* The delay of the timer of switchImage.
SwitchDelay == 100

\* The data-category values of the .nav-image elements and of the .nav-item
\* elements: one item has a category no image carries.
ImageCategories == {"bodas", "retratos"}
ItemCategories == ImageCategories \cup {"sin-imagen"}

\* document.querySelector(`[data-category="${category}"].nav-image`) finds one.
imageFound(category) == category \in ImageCategories

\* Header.switchImage
switchImage(n, category) ==
  [n EXCEPT !.active = {},
            !.timers = IF imageFound(category)
                       THEN @ \cup {[category |-> category, left |-> SwitchDelay]}
                       ELSE @]

\* The callback of a timer of switchImage.
imageTimerFired(n, t) ==
  [n EXCEPT !.active = @ \cup {t.category}, !.timers = @ \ {t}]

\* The overlay as the document delivers it: at most one image is active.
navInit(active) == [active |-> active, timers |-> {}]

InitNav == \E a \in {{}} \cup {{c} : c \in ImageCategories} : nv = navInit(a)

IdleNav == nv = navInit({})

\* The pointer enters a navigation item.
MouseEnterItem ==
  /\ \E category \in ItemCategories : nv' = switchImage(nv, category)
  /\ UNCHANGED notNav

\* Time passes while timers are pending; a timer that is due fires first.
NavTimePasses ==
  /\ nv.timers # {}
  /\ \A t \in nv.timers : t.left > 0
  /\ nv' = [nv EXCEPT !.timers = {[t EXCEPT !.left = Max(0, @ - HoverStep)] : t \in @}]
  /\ UNCHANGED notNav

\* A timer that is due fires.
NavTimerFires ==
  /\ \E t \in nv.timers :
       /\ t.left = 0
       /\ nv' = imageTimerFired(nv, t)
  /\ UNCHANGED notNav

NextNav ==
  \/ MouseEnterItem
  \/ NavTimePasses
  \/ NavTimerFires

(***************************************************************************)
(* App: the construction of the components                                 *)
(***************************************************************************)

\* The components in the order initializeComponents constructs them.
Components ==
  << "ScrollAnimations", "Portfolio", "FooterAnimations",
     "PerformanceOptimizer", "AccessibilityEnhancer", "ErrorHandler" >>

ComponentNames == {Components[i] : i \in 1..Len(Components)}

\* The component classes main.js declares.
ComponentClasses ==
  { "ScrollAnimations", "Portfolio", "PerformanceOptimizer",
    "AccessibilityEnhancer", "ErrorHandler", "MiniPolaroids",
    "FooterAnimations" }

\* The constructors from the k-th on, run inside one try block: the first
\* that throws ends the block, and the catch logs the error.
RECURSIVE construct(_, _)
construct(a, k) ==
  IF k > Len(Components)
  THEN [a EXCEPT !.bodyLoaded = TRUE, !.log = Append(@, "initialized")]
  ELSE IF Components[k] \in a.throwing
       THEN [a EXCEPT !.log = Append(@, "failed")]
       ELSE construct([a EXCEPT !.components = Append(@, Components[k])], k + 1)

\* App.initializeComponents
initializeComponents(a) == [construct(a, 1) EXCEPT !.initialized = TRUE]

\* new App(), and the rest of the script: `process` is read, which throws
\* where no such global is declared.
runScript(a) ==
  LET b == IF a.readyState = "loading"
           THEN [a EXCEPT !.listening = TRUE]
           ELSE initializeComponents(a)
  IN [b EXCEPT !.scriptRan = TRUE, !.scriptThrew = ~a.hasProcess]

\* The page before the script runs: the constructors that throw on it, the
\* document's readyState and whether a global `process` is declared.
appInit(throwing, readyState, hasProcess) ==
  [ throwing |-> throwing, readyState |-> readyState, hasProcess |-> hasProcess,
    scriptRan |-> FALSE, scriptThrew |-> FALSE, listening |-> FALSE,
    initialized |-> FALSE, components |-> <<>>, bodyLoaded |-> FALSE, log |-> <<>> ]

InitApp ==
  \E throwing \in SUBSET ComponentNames,
     readyState \in {"loading", "interactive"}, hasProcess \in BOOLEAN :
    app = appInit(throwing, readyState, hasProcess)

IdleApp == app = appInit({}, "loading", FALSE)

\* The script is evaluated.
RunScript ==
  /\ ~app.scriptRan
  /\ app' = runScript(app)
  /\ UNCHANGED notApp

\* The document has been parsed: DOMContentLoaded.
DomContentLoaded ==
  /\ app.readyState = "loading"
  /\ app' = IF app.listening
            THEN initializeComponents([app EXCEPT !.readyState = "interactive"])
            ELSE [app EXCEPT !.readyState = "interactive"]
  /\ UNCHANGED notApp

\* The page has loaded.
WindowLoad ==
  /\ app.readyState = "interactive"
  /\ app' = [app EXCEPT !.readyState = "complete"]
  /\ UNCHANGED notApp

NextApp ==
  \/ RunScript
  \/ DomContentLoaded
  \/ WindowLoad

(***************************************************************************)
(* PerformanceOptimizer: the play state of the animated elements           *)
(***************************************************************************)

\* The elements matching '.polaroid__image, .marquee__content'.
AnimIds == {1, 2}

\* entry.target.style.animationPlayState after the callback has handled an
\* entry of the element.
playStateFor(isIntersecting) == IF isIntersecting THEN "running" ELSE "paused"

\* The callback that only ever resumes an animation.
animEntry_OneShot(a, target, isIntersecting) ==
  IF isIntersecting
  THEN [a EXCEPT !.playState[target] = "running"]
  ELSE a

\* The animation observer's callback on one entry.
animEntry(a, target, isIntersecting) ==
  [a EXCEPT !.playState[target] = playStateFor(isIntersecting)]

\* History: the isIntersecting of the last entry handled for the element, and
\* the entries handled for it, counted up to three.
sawAnimEntry(a, target, isIntersecting) ==
  [a EXCEPT !.last[target] = IF isIntersecting THEN "in" ELSE "out",
            !.handled[target] = Min(@ + 1, 3)]

\* entries.forEach of the animation observer's callback.
RECURSIVE animEntries(_, _)
animEntries(a, entries) ==
  IF entries = <<>> THEN a
  ELSE LET en == Head(entries)
       IN animEntries(animEntry(sawAnimEntry(a, en.target, en.isIntersecting),
                                en.target, en.isIntersecting),
                      Tail(entries))

\* animatedElements.forEach(observe): the observer reports every element
\* once, as it finds it.
RECURSIVE firstAnimEntries(_, _)
firstAnimEntries(inView, n) ==
  IF n = 0 THEN <<>>
  ELSE Append(firstAnimEntries(inView, n - 1),
              [target |-> n, isIntersecting |-> inView[n]])

\* The state optimizeAnimations leaves: with 'IntersectionObserver' in
\* window every element is observed, without it nothing is done.
animInit(hasObserver, inView) ==
  [ hasObserver |-> hasObserver,
    playState |-> [e \in AnimIds |-> ""],
    inView |-> inView,
    queue |-> IF hasObserver
              THEN firstAnimEntries(inView, Cardinality(AnimIds))
              ELSE <<>>,
    last |-> [e \in AnimIds |-> "none"],
    handled |-> [e \in AnimIds |-> 0] ]

InitAnim ==
  \E hasObserver \in BOOLEAN, inView \in [AnimIds -> BOOLEAN] :
    an = animInit(hasObserver, inView)

IdleAnim == an = animInit(FALSE, [e \in AnimIds |-> FALSE])

\* An animated element crosses the viewport's edge: the observer, if there
\* is one, queues an entry.
AnimCrossesViewport ==
  /\ Len(an.queue) < Cardinality(AnimIds) + MaxQueue
  /\ \E e \in AnimIds :
       an' = [an EXCEPT !.inView[e] = ~@,
                        !.queue = IF an.hasObserver
                                  THEN Append(@, [target |-> e,
                                                  isIntersecting |-> ~an.inView[e]])
                                  ELSE @]
  /\ UNCHANGED notAnim

\* The animation observer delivers what it queued, in one call of the
\* callback.
AnimDeliver ==
  /\ an.queue # <<>>
  /\ an' = [animEntries(an, an.queue) EXCEPT !.queue = <<>>]
  /\ UNCHANGED notAnim

NextAnim ==
  \/ AnimCrossesViewport
  \/ AnimDeliver

(***************************************************************************)
(* MiniPolaroids: the drag of the decorations                              *)
(***************************************************************************)

\* The .mini-polaroid elements, and no decoration.
Decos == {1, 2}
NoDeco == 0

\* Pointer positions (clientX, clientY) and the origin.
Points == [x : 0..MaxSize, y : 0..MaxSize]
Origin == [x |-> 0, y |-> 0]

\* The uncaught errors reported to the window are counted up to this.
ErrorCap == Cardinality(Decos) + 1

\* A handler ends with an uncaught ReferenceError.
referenceError(d) == [d EXCEPT !.errors = Min(@ + 1, ErrorCap)]

\* MiniPolaroids.dragStart: line 422 reads xOffset, a local of makeDraggable
\* that is not in the scope of the method (strict mode, no such global), so
\* the handler throws before it sets element.isDragging and the cursor.
dragStart(d, el, point) == referenceError(d)

\* MiniPolaroids.dragMove: nothing unless element.isDragging; its body reads
\* initialX (line 438), which is not in scope either.
dragMove(d, el, point) ==
  IF d.isDragging[el] THEN referenceError(d) ELSE d

\* MiniPolaroids.dragEnd: line 460 reads currentX, not in scope, and throws
\* before it clears element.isDragging and sets the cursor.
dragEnd(d, el) == referenceError(d)

\* The document's mousemove / touchmove listeners, one per decoration, in
\* the order makeDraggable registered them.
RECURSIVE moveListeners(_, _, _)
moveListeners(d, n, point) ==
  IF n = 0 THEN d ELSE dragMove(moveListeners(d, n - 1, point), n, point)

\* The document's mouseup / touchend listeners, one per decoration: each
\* runs although the one before it threw.
RECURSIVE upListeners(_, _)
upListeners(d, n) ==
  IF n = 0 THEN d ELSE dragEnd(upListeners(d, n - 1), n)

\* The page before any pointer event. constructed: some script has run
\* new MiniPolaroids() (App does not). pos is the translation of each
\* decoration's style.transform. (pointer, held, downAt, downPos and ended
\* are history: where the pointer is, the decoration it went down on, where,
\* that decoration's translation then, and the decorations the pointer has
\* been released from.)
decorInit(constructed, point) ==
  [ constructed |-> constructed,
    pos |-> [el \in Decos |-> Origin],
    isDragging |-> [el \in Decos |-> FALSE],
    cursor |-> [el \in Decos |-> ""],
    errors |-> 0,
    pointer |-> point, held |-> NoDeco, downAt |-> Origin, downPos |-> Origin,
    ended |-> [el \in Decos |-> FALSE] ]

InitDecor ==
  \E constructed \in BOOLEAN, point \in Points :
    dc = decorInit(constructed, point)

IdleDecor == dc = decorInit(FALSE, Origin)

\* The pointer goes down on a decoration (mousedown / touchstart).
PointerDown ==
  /\ dc.held = NoDeco
  /\ \E el \in Decos :
       dc' = [(IF dc.constructed THEN dragStart(dc, el, dc.pointer) ELSE dc)
                EXCEPT !.held = el, !.downAt = dc.pointer, !.downPos = dc.pos[el]]
  /\ UNCHANGED notDecor

\* The pointer moves (mousemove / touchmove on the document).
PointerMove ==
  /\ \E point \in Points \ {dc.pointer} :
       dc' = [(IF dc.constructed
               THEN moveListeners(dc, Cardinality(Decos), point)
               ELSE dc)
                EXCEPT !.pointer = point]
  /\ UNCHANGED notDecor

\* The pointer goes up (mouseup / touchend on the document).
PointerUp ==
  /\ dc.held # NoDeco
  /\ dc' = [(IF dc.constructed THEN upListeners(dc, Cardinality(Decos)) ELSE dc)
              EXCEPT !.held = NoDeco, !.ended[dc.held] = TRUE]
  /\ UNCHANGED notDecor

NextDecor ==
  \/ PointerDown
  \/ PointerMove
  \/ PointerUp

(***************************************************************************)
(* Specifications, one per component                                       *)
(***************************************************************************)

InitSpecHeader ==
  /\ InitHeader
  /\ IdleStats /\ IdleImages /\ IdleFooter /\ IdlePortfolio
  /\ IdleAccess /\ IdleDrag /\ IdleNav /\ IdleApp /\ IdleAnim
  /\ IdleDecor
SpecHeader == InitSpecHeader /\ [][NextHeader]_vars

\* The same with the event loop's guarantees: time passes while a timer is
\* pending, and a timer that is due fires.
SpecHeaderFair == SpecHeader /\ WF_vars(Tick) /\ WF_vars(ThrottleTimeout)

InitSpecStats ==
  /\ InitStats
  /\ IdleHeader /\ IdleImages /\ IdleFooter /\ IdlePortfolio
  /\ IdleAccess /\ IdleDrag /\ IdleNav /\ IdleApp /\ IdleAnim
  /\ IdleDecor
SpecStats == InitSpecStats /\ [][NextStats]_vars

InitSpecImages ==
  /\ InitImages
  /\ IdleHeader /\ IdleStats /\ IdleFooter /\ IdlePortfolio
  /\ IdleAccess /\ IdleDrag /\ IdleNav /\ IdleApp /\ IdleAnim
  /\ IdleDecor
SpecImages == InitSpecImages /\ [][NextImages]_vars

InitSpecFooter ==
  /\ InitFooter
  /\ IdleHeader /\ IdleStats /\ IdleImages /\ IdlePortfolio
  /\ IdleAccess /\ IdleDrag /\ IdleNav /\ IdleApp /\ IdleAnim
  /\ IdleDecor
SpecFooter == InitSpecFooter /\ [][NextFooter]_vars

\* A timer that has been started fires: the event loop runs the callbacks of
\* the timers that are due.
SpecFooterFair == SpecFooter /\ WF_vars(FooterTimeout)

InitSpecPortfolio ==
  /\ InitPortfolio
  /\ IdleHeader /\ IdleStats /\ IdleImages /\ IdleFooter /\ IdleAccess
  /\ IdleDrag /\ IdleNav /\ IdleApp /\ IdleAnim /\ IdleDecor
SpecPortfolio == InitSpecPortfolio /\ [][NextPortfolio]_vars

InitSpecAccess ==
  /\ InitAccess
  /\ IdleHeader /\ IdleStats /\ IdleImages /\ IdleFooter
  /\ IdlePortfolio /\ IdleDrag /\ IdleNav /\ IdleApp /\ IdleAnim
  /\ IdleDecor
SpecAccess == InitSpecAccess /\ [][NextAccess]_vars

InitSpecDrag ==
  /\ InitDrag
  /\ IdleHeader /\ IdleStats /\ IdleImages /\ IdleFooter
  /\ IdlePortfolio /\ IdleAccess /\ IdleNav /\ IdleApp /\ IdleAnim
  /\ IdleDecor
SpecDrag == InitSpecDrag /\ [][NextDrag]_vars

InitSpecNav ==
  /\ InitNav
  /\ IdleHeader /\ IdleStats /\ IdleImages /\ IdleFooter
  /\ IdlePortfolio /\ IdleAccess /\ IdleDrag /\ IdleApp /\ IdleAnim
  /\ IdleDecor
SpecNav == InitSpecNav /\ [][NextNav]_vars

InitSpecApp ==
  /\ InitApp
  /\ IdleHeader /\ IdleStats /\ IdleImages /\ IdleFooter
  /\ IdlePortfolio /\ IdleAccess /\ IdleDrag /\ IdleNav /\ IdleAnim
  /\ IdleDecor
SpecApp == InitSpecApp /\ [][NextApp]_vars

InitSpecAnim ==
  /\ InitAnim
  /\ IdleHeader /\ IdleStats /\ IdleImages /\ IdleFooter
  /\ IdlePortfolio /\ IdleAccess /\ IdleDrag /\ IdleNav /\ IdleApp
  /\ IdleDecor
SpecAnim == InitSpecAnim /\ [][NextAnim]_vars

InitSpecDecor ==
  /\ InitDecor
  /\ IdleHeader /\ IdleStats /\ IdleImages /\ IdleFooter
  /\ IdlePortfolio /\ IdleAccess /\ IdleDrag /\ IdleNav /\ IdleApp
  /\ IdleAnim
SpecDecor == InitSpecDecor /\ [][NextDecor]_vars


(***************************************************************************)
(* Claims about the Header controller                                      *)
(***************************************************************************)

\* A step that takes the menu from open to closed.
CloseStep == h.isMenuOpen /\ ~h'.isMenuOpen

\* C1 (as stated): every step that closes an open menu leaves the window at
\* the scroll offset it had immediately before the menu was opened.
C1_CloseRestoresPreOpenOffset ==
  [][CloseStep => h'.scrollY = preOpenY]_vars

\* What holds in place of C1: in the overlay (fixed-offset) variant every step that closes
\* an open menu leaves the window at the offset it had immediately before
\* the open; in the simple variant the closing step leaves the offset where
\* it is (nothing is saved or restored).
C1_CloseRestoresOrKeepsOffset ==
  [][CloseStep =>
       IF page.variant = "overlay"
       THEN h'.scrollY = preOpenY
       ELSE h'.scrollY = h.scrollY]_vars

\* C2 (as stated): once every scroll event has been delivered, the header
\* carries "scrolled" exactly when the scroll offset is above the threshold.
C2_ScrolledIffPastThreshold ==
  (page.hasHeader /\ ~h.scrollEvt) =>
    (h.scrolled <=> h.scrollY > SCROLL_THRESHOLD)

\* C10: without a header element the controller does nothing: no handler
\* throws, the menu flag stays closed, the scroll is never locked and no
\* facet of the DOM is written.
C10_NoHeaderNoOp ==
  ~page.hasHeader =>
    /\ ~h.threw
    /\ ~h.isMenuOpen
    /\ ~h.bodyFixed /\ ~h.bodyOverflowHidden /\ ~h.rootMenuOpen /\ h.bodyTop = 0
    /\ ~h.scrolled /\ ~h.headerMenuOpen
    /\ ~h.toggleActive /\ ~h.overlayActive
    /\ h.ariaExpanded = "false" /\ h.ariaLabel = menuLabel(FALSE)
    /\ ~h.inThrottle

\* C10 witness: on a page without a header the page was scrolled, a fragment
\* link was followed and the Escape key was pressed.
C10_Witness ==
  /\ ~page.hasHeader /\ page.hasToggle
  /\ lastEvent = "escape"
  /\ h.scrollY = PageMax
  /\ h.hash = <<"#", "about">>

(***************************************************************************)
(* Claims about ScrollAnimations                                           *)
(***************************************************************************)

\* C4: animateNumber is called at most once for each statistic, and it has
\* been called exactly when an intersecting entry of that statistic has been
\* handled (so the call is made on the first one).
C4_AnimateNumberAtMostOnce ==
  \A e \in StatIds :
    /\ st[e].starts <= 1
    /\ (st[e].starts = 1 <=> st[e].intersections >= 1)
    /\ (st[e].starts = 1 <=> st[e].animated)

\* C4 witness: a statistic entered the viewport, left it and entered again
\* (two intersecting entries were handled) and was animated once.
C4_Witness ==
  \E e \in StatIds : st[e].intersections = 2 /\ st[e].starts = 1

\* The text is digits followed by a suffix without digits.
DigitsThenSuffix(text) ==
  \E k \in 1..Len(text) :
    /\ \A i \in 1..k : isDigit(text[i])
    /\ \A i \in (k + 1)..Len(text) : ~isDigit(text[i])

\* A statistic whose animation has started on such a text.
Counting(e) == st[e].starts = 1 /\ DigitsThenSuffix(st[e].finalNumber)

\* C7: for a statistic whose text is digits followed by a suffix, while the
\* animation runs the element shows the computed number followed by the
\* suffix; from one frame to the next the number never decreases; and once a
\* frame has come 1000 ms or more after the start the element shows the
\* original string and no frame is requested any more.
C7_MonotoneThenExact ==
  /\ [](\A e \in StatIds :
          Counting(e) /\ st[e].framed =>
            IF st[e].elapsed >= Duration
            THEN st[e].text = st[e].finalNumber /\ ~st[e].running
            ELSE st[e].text = numToStr(st[e].current) \o st[e].suffix /\ st[e].running)
  /\ [][\A e \in StatIds :
          Counting(e) /\ st[e].framed /\ st'[e].framed =>
            st'[e].current >= st[e].current]_vars

\* C7 witness: the counter of "250+" went through a frame before the end,
\* then one after it, and shows "250+" again.
C7_Witness ==
  \E e \in StatIds :
    /\ st[e].finalNumber = <<"2", "5", "0", "+">>
    /\ st[e].framed /\ st[e].elapsed = 5 * FrameMs
    /\ st[e].current = st[e].numericValue /\ st[e].numericValue = 250
    /\ st[e].text = <<"2", "5", "0", "+">>
    /\ ~st[e].running

\* C21: on every frame of a counter the progress lies between 0 and 1 (0 and
\* Duration in ms) and the number shown lies between 0 and the magnitude,
\* also when the timestamp of the frame is earlier than the start time.
C21_ProgressAndNumberClamped ==
  \A e \in StatIds :
    st[e].starts = 1 /\ st[e].framed =>
      /\ progressMs(st[e].elapsed) \in 0..Duration
      /\ st[e].current \in 0..st[e].numericValue

\* A statistic whose number element holds a text without any digit.
NoDigit(e) == st[e].hasNumber /\ onlyDigits(st[e].text) = <<>>

\* C28: a statistic whose number text has no digit is left alone when it
\* enters the viewport: no frame is requested or run for it, and no step
\* changes its text.
C28_NoDigitLeftUntouched ==
  /\ [](\A e \in StatIds : NoDigit(e) => ~st[e].running /\ ~st[e].framed)
  /\ [][\A e \in StatIds : NoDigit(e) => st'[e].text = st[e].text]_vars

\* C28 witness: the statistic "+" entered the viewport twice, animateNumber
\* was called for it, and it still shows "+" with no frame pending.
C28_Witness ==
  \E e \in StatIds :
    /\ st[e].hasNumber /\ st[e].text = <<"+">>
    /\ st[e].intersections = 2 /\ st[e].starts = 1 /\ st[e].animated
    /\ ~st[e].running /\ ~st[e].framed

(***************************************************************************)
(* Claims about PerformanceOptimizer                                       *)
(***************************************************************************)

\* The attributes and classes of an image that lazy loading writes.
Facets(i) == <<i.src, i.dataSrc, i.loaded, i.observed>>

\* C5: the src of an image is assigned at most once. Before an intersecting
\* entry of the image is handled the image is as delivered and observed;
\* afterwards it is loaded and unobserved, a non-empty data-src it was
\* delivered with is its src and the attribute is gone, and without one src
\* and data-src are as delivered. Once loaded, nothing of it changes again.
C5_LazyLoadAtMostOnce ==
  /\ [](\A i \in ImgIds :
          /\ img[i].srcWrites <= 1
          /\ IF img[i].handled = 0
             THEN /\ img[i].src = img[i].html.src
                  /\ img[i].dataSrc = img[i].html.dataSrc
                  /\ ~img[i].loaded
                  /\ img[i].observed = imgIO.hasIO
             ELSE /\ img[i].loaded /\ ~img[i].observed
                  /\ IF truthy(img[i].html.dataSrc)
                     THEN /\ img[i].src = img[i].html.dataSrc.value
                          /\ img[i].dataSrc = NoAttr
                          /\ img[i].srcWrites = 1
                     ELSE /\ img[i].src = img[i].html.src
                          /\ img[i].dataSrc = img[i].html.dataSrc
                          /\ img[i].srcWrites = 0)
  /\ [][\A i \in ImgIds : img[i].loaded => Facets(img'[i]) = Facets(img[i])]_vars

\* C5 witness: an image delivered with a data-src was loaded from it, and
\* has since left the viewport and come back.
C5_Witness ==
  \E i \in ImgIds :
    /\ img[i].html.dataSrc.value = "full.jpg"
    /\ img[i].src = "full.jpg" /\ img[i].loaded /\ ~img[i].observed
    /\ img[i].handled = 1
    /\ imgIO.inView[i] /\ imgIO.queue = <<>>
    /\ \E j \in ImgIds : j # i /\ img[j].handled = 2

(***************************************************************************)
(* Claims about FooterAnimations                                           *)
(***************************************************************************)

\* C6: triggerAnimations is called at most once, and exactly when an
\* intersecting entry of the footer has been handled; the timers of the top
\* section and of the letters are started once each, never again.
C6_FooterTriggeredAtMostOnce ==
  /\ ft.triggers <= 1
  /\ (ft.triggers = 1 <=> ft.intersections >= 1)
  /\ (ft.triggers = 1 <=> ft.isAnimated)
  /\ ft.scheduled = ft.triggers * (1 + LetterCount)

\* C6 witness: the footer entered the viewport, left and entered again, the
\* reveal was triggered once and all its timers have fired.
C6_Witness ==
  /\ ft.intersections = 2
  /\ ft.triggers = 1
  /\ ft.pending = {}
  /\ ft.lettersAnimate = Letters

\* C26: once the reveal is triggered, the top section (where the footer has
\* one) is marked before any letter, letter i is marked before letter j for
\* i < j, eventually the top section and every letter are marked, and no mark
\* is ever removed.
C26_RevealInOrderAndComplete ==
  /\ [](ft.hasTop /\ ft.lettersAnimate # {} => ft.topAnimate)
  /\ [](\A j \in ft.lettersAnimate : \A i \in Letters : i < j => i \in ft.lettersAnimate)
  /\ (ft.triggers >= 1) ~>
       ((ft.hasTop => ft.topAnimate) /\ ft.lettersAnimate = Letters)
  /\ [][/\ ft.topAnimate => ft'.topAnimate
        /\ ft.lettersAnimate \subseteq ft'.lettersAnimate]_vars

\* C26 witness: after the trigger the top section and every letter but the
\* last are marked, and only the timer of the last letter is pending.
C26_Witness ==
  /\ ft.triggers = 1 /\ ft.hasTop /\ ft.topAnimate
  /\ ft.lettersAnimate = Letters \ {LetterCount - 1}
  /\ \A t \in ft.pending : t.kind = "letter" /\ t.index = LetterCount - 1
  /\ ft.pending # {}

(***************************************************************************)
(* Claims about Portfolio and AccessibilityEnhancer                        *)
(***************************************************************************)

\* C8 (as stated): when a finger is lifted from an item less than 200 ms
\* after it came down, the item's touched state is toggled and every other
\* item's is cleared; when it is lifted 200 ms or more after it came down,
\* no item's touched state changes.
C8_TapTogglesSlowPressDoesNot ==
  [][\A t \in Fingers :
       (pf.fingers[t].down /\ ~pf'.fingers[t].down) =>
         LET i == pf.fingers[t].item
         IN IF pf.now - pf.fingers[t].start < TapLimit
            THEN /\ pf'.touched[i] = ~pf.touched[i]
                 /\ \A j \in Items \ {i} : ~pf'.touched[j]
            ELSE pf'.touched = pf.touched]_vars

\* C9 (as stated): whenever the reduced-motion preference is active, the
\* five duration properties are set to 0ms.
C9_ReducedMotionZeroesDurations ==
  am.prefersReduced => am.zeroed = DurationVars

(***************************************************************************)
(* Claims about the constraint of dragMove                                 *)
(***************************************************************************)

Called(s, fn) == \E i \in 1..Len(s.calls) : s.calls[i].fn = fn

\* The href names an element of the document.
anchorExists(href) == startsWithHash(href) /\ elementExists(targetIdOf(href))

\* The state without the history of calls.
sameButCalls(s, t) == [s EXCEPT !.calls = <<>>] = [t EXCEPT !.calls = <<>>]

\* C11: an open menu is closed after an Escape key press, after a click
\* outside the toggle (simple variant), after a click on a navigation item,
\* and after a click on a link to an element that exists; an Escape key press
\* while the menu is closed changes nothing.
C11_DismissalsCloseMenu ==
  [][/\ (KeyEscape /\ h.isMenuOpen) => ~h'.isMenuOpen
     /\ (KeyEscape /\ ~h.isMenuOpen) => sameButCalls(h', h)
     /\ (ClickOutside /\ page.variant = "simple" /\ h.isMenuOpen) => ~h'.isMenuOpen
     /\ \A href \in Hrefs :
          (NavItemClick(href) /\ h.isMenuOpen) => ~h'.isMenuOpen
     /\ \A href \in Hrefs :
          (NavLinkClick(href) /\ h.isMenuOpen /\ anchorExists(href))
            => ~h'.isMenuOpen]_vars

\* C11 witness: a click on a link to an existing element found the overlay
\* menu open and closed it.
C11_Witness ==
  /\ page.variant = "overlay"
  /\ lastEvent = "navLink"
  /\ Called(h, "closeMenu")
  /\ ~h.isMenuOpen
  /\ h.hash = <<"#", "about">>

\* C12: the facets of the menu agree with the open flag: the toggle's active
\* class, aria-expanded, the label, the overlay's active class and the header's
\* class (overlay variant), and the scroll lock (the pinned body in the
\* overlay variant, the hidden overflow in both).
C12_MenuFacetsAgree ==
  /\ h.toggleActive = h.isMenuOpen
  /\ h.ariaExpanded = (IF h.isMenuOpen THEN "true" ELSE "false")
  /\ h.ariaLabel = (IF h.isMenuOpen THEN "Cerrar menu" ELSE "Abrir menu")
  /\ h.bodyOverflowHidden = h.isMenuOpen
  /\ IF page.variant = "overlay"
     THEN /\ h.overlayActive = h.isMenuOpen
          /\ h.headerMenuOpen = h.isMenuOpen
          /\ h.bodyFixed = h.isMenuOpen
          /\ h.rootMenuOpen = h.isMenuOpen
          /\ h.bodyTop = (IF h.isMenuOpen THEN 0 - h.scrollPosition ELSE 0)
     ELSE /\ ~h.overlayActive /\ ~h.headerMenuOpen
          /\ ~h.bodyFixed /\ ~h.rootMenuOpen

\* C12 witness: after a link to the top of the page was followed, the
\* overlay menu was opened with the toggle just below the threshold offset.
C12_Witness ==
  /\ page.variant = "overlay"
  /\ lastEvent = "toggle"
  /\ h.isMenuOpen /\ h.overlayActive /\ h.bodyFixed
  /\ h.scrollPosition = SCROLL_THRESHOLD + 1
  /\ h.hash = <<"#", "inicio">>

(***************************************************************************)
(* Claims about App and about the preview images                           *)
(***************************************************************************)

\* C13 (as stated): when the constructor of one component throws, every other
\* component is constructed all the same, and the failure is logged and does
\* not leave initializeComponents.
C13_OtherComponentsStillConstructed ==
  (app.initialized /\ Cardinality(app.throwing) = 1) =>
    /\ \A c \in ComponentNames \ app.throwing :
         \E i \in 1..Len(app.components) : app.components[i] = c
    /\ app.log = <<"failed">>

\* C24 (as stated): once initializeComponents has completed without error,
\* every component class of the script has been constructed, MiniPolaroids
\* (the draggable decorations) included.
C24_EveryComponentInitialized ==
  (app.initialized /\ app.log = <<"initialized">>) =>
    \A c \in ComponentClasses :
      \E i \in 1..Len(app.components) : app.components[i] = c

\* C19 (as stated): at most one preview image carries the active class.
C19_AtMostOneActiveImage ==
  Cardinality(nv.active) <= 1

(***************************************************************************)
(* Claims about throttle                                                   *)
(***************************************************************************)

\* C14: a scroll event that arrives while no window is active is serviced in
\* the same step and opens a window; one that arrives inside a window calls
\* nothing and changes nothing but the pending event; the wrapped function is
\* applied only DEBOUNCE_DELAY ms or more after its last application; the
\* timer that ends the window applies nothing; and every window ends.
C14_ThrottleWindow ==
  /\ [][/\ (DispatchScroll /\ initRan(page) /\ ~h.inThrottle)
             => /\ Called(h', "scrollHandler")
                /\ h'.scrolled = (h.scrollY > SCROLL_THRESHOLD)
                /\ h'.inThrottle
        /\ (DispatchScroll /\ h.inThrottle)
             => /\ ~Called(h', "scrollHandler")
                /\ sameButCalls(h', [h EXCEPT !.scrollEvt = FALSE])
        /\ (DispatchScroll /\ Called(h', "scrollHandler"))
             => h.sinceCall >= DEBOUNCE_DELAY
        /\ ThrottleTimeout => (h'.scrolled = h.scrolled /\ h'.calls = h.calls)]_vars
  /\ [](h.inThrottle => <>(~h.inThrottle))

\* C14 witness: a window has ended and the event that arrived inside it was
\* dropped: the page is above the threshold and the header is not marked.
C14_Witness ==
  /\ page.hasHeader
  /\ ~h.inThrottle /\ h.sinceCall = DEBOUNCE_DELAY
  /\ lastEvent = "scrollEvent" /\ h.calls = <<>>
  /\ ~h.scrollEvt
  /\ h.scrollY > SCROLL_THRESHOLD /\ ~h.scrolled

(***************************************************************************)
(* Claims about anchor navigation and the scroll lock                      *)
(***************************************************************************)

\* The calls that ask the window to scroll.
ScrollCalls == {"scrollTo", "scrollToSmooth"}

\* The places in the history of calls where fn was called.
CallsOf(s, fns) == {i \in 1..Len(s.calls) : s.calls[i].fn \in fns}

\* A click on a link or on a navigation item with this href.
AnchorClick(href) == NavLinkClick(href) \/ NavItemClick(href)

\* C15 (as stated): when a link to an existing element is clicked while the
\* menu is open, closeMenu, the unlock and the restoring scrollTo are all
\* called before the smooth scroll is started.
C15_MenuClosedBeforeSmoothScroll ==
  [][\A href \in Hrefs :
       (AnchorClick(href) /\ h.isMenuOpen /\ anchorExists(href)) =>
         /\ Called(h', "closeMenu")
         /\ Called(h', "scrollToSmooth")
         /\ \A i \in CallsOf(h', {"closeMenu", "enableScroll", "scrollTo"}),
               j \in CallsOf(h', {"scrollToSmooth"}) : i < j]_vars

\* C16 (as stated): a click on a link to an existing element asks for a
\* scroll whose last destination is the element's top minus the header's
\* height, smoothly, and sets the fragment; a click on a link to an element
\* that does not exist asks for no scroll and leaves the fragment.
C16_LastScrollIsTarget ==
  [][\A href \in Hrefs :
       (AnchorClick(href) /\ page.hasHeader /\ startsWithHash(href)) =>
         IF elementExists(targetIdOf(href))
         THEN /\ CallsOf(h', ScrollCalls) # {}
              /\ LET last == h'.calls[CHOOSE i \in CallsOf(h', ScrollCalls) :
                                        \A j \in CallsOf(h', ScrollCalls) : j <= i]
                 IN /\ last.fn = "scrollToSmooth"
                    /\ last.top = offsetTopOf(targetIdOf(href)) - HeaderHeight
              /\ h'.hash = href
         ELSE /\ CallsOf(h', ScrollCalls) = {}
              /\ h'.hash = h.hash]_vars

\* C17 (as stated): disableScroll is called only while the body is not
\* pinned, enableScroll only while it is pinned, and the saved offset does
\* not change while the body stays pinned.
C17_LockUnlockPaired ==
  [][/\ \A i \in CallsOf(h', {"disableScroll"}) : ~h'.calls[i].locked
     /\ \A i \in CallsOf(h', {"enableScroll"}) : h'.calls[i].locked
     /\ (h.bodyFixed /\ h'.bodyFixed) => h'.scrollPosition = h.scrollPosition]_vars

\* C18 (as stated): where the menu is wired, a click on a navigation item
\* while the menu is closed leaves the window's scroll offset and the state
\* of the menu as they were.
C18_CloseWhenClosedIsNoOp ==
  [][\A href \in Hrefs :
       (NavItemClick(href) /\ menuWired(page) /\ ~h.isMenuOpen) =>
         /\ h'.scrollY = h.scrollY
         /\ ~h'.isMenuOpen /\ ~h'.bodyFixed /\ ~h'.overlayActive
         /\ h'.scrollPosition = h.scrollPosition]_vars

\* A page with a header where the toggle or the overlay container is missing.
optionalMissing(p) ==
  p.hasHeader /\ (~p.hasToggle \/ (p.variant = "overlay" /\ ~p.hasOverlay))

\* What stays in working order on such a page: no handler throws, an
\* unthrottled scroll event sets the scrolled state by the threshold, and a
\* click on a link to an existing anchor starts the smooth scroll.
C27_ScrollAndAnchorsKeepWorking ==
  /\ [](optionalMissing(page) => ~h.threw)
  /\ [][optionalMissing(page) =>
          /\ (DispatchScroll /\ ~h.inThrottle =>
                 h'.scrolled = (h.scrollY > SCROLL_THRESHOLD))
          /\ \A href \in Hrefs :
                NavLinkClick(href) /\ anchorExists(href) =>
                  Called(h', "scrollToSmooth")]_vars

\* C27 (as stated): with the header present and an optional element missing,
\* the rest keeps working as above and, when it is the overlay container that
\* is missing, a click on the toggle still opens or closes the menu.
C27_OnlyTheFeatureIsDisabled ==
  /\ C27_ScrollAndAnchorsKeepWorking
  /\ [][(page.hasHeader /\ page.hasToggle /\ ~page.hasOverlay /\ ClickToggle) =>
          h'.isMenuOpen = ~h.isMenuOpen]_vars

(***************************************************************************)
(* Claims about the play state of the animated elements                    *)
(***************************************************************************)

\* C25: once the observer has handled an entry of an animated element, the
\* element's animation is running exactly if the last entry handled for it
\* was intersecting; and when nothing is left to deliver, exactly if the
\* element is in the viewport, however often it entered and left.
C25_RunningIffIntersecting ==
  \A e \in AnimIds :
    /\ an.handled[e] > 0 =>
         (an.playState[e] = "running" <=> an.last[e] = "in")
         /\ (an.playState[e] = "paused" <=> an.last[e] = "out")
    /\ (an.hasObserver /\ an.queue = <<>>) =>
         an.playState[e] = playStateFor(an.inView[e])

\* C25 witness: an element has gone through three entries, the last one
\* leaving the viewport, and is paused while the other one is running.
C25_Witness ==
  \E e \in AnimIds, o \in AnimIds :
    /\ an.handled[e] = 3 /\ an.last[e] = "out" /\ an.playState[e] = "paused"
    /\ ~an.inView[e] /\ an.queue = <<>>
    /\ o # e /\ an.playState[o] = "running"

(***************************************************************************)
(* Claims about the drag of the decorations                                *)
(***************************************************************************)

\* The translation a drag that started at translation `from` has written
\* once the pointer is at `point`, for a decoration of 1 x 1 in a container
\* of MaxSize x MaxSize.
dragTarget(from, downAt, point) ==
  [ x |-> constrain(from.x + (point.x - downAt.x), maxOffset(MaxSize, 1)),
    y |-> constrain(from.y + (point.y - downAt.y), maxOffset(MaxSize, 1)) ]

\* C22 (as stated): no step changes the translation of a decoration the
\* pointer is not holding; and where the decorations are draggable, a drag of
\* one decoration begun after the drag of another moves it from its own
\* translation at pointer-down by the displacement of the pointer.
C22_EachDecorationOwnsItsOffset ==
  /\ [][\A a \in Decos : dc.held # a => dc'.pos[a] = dc.pos[a]]_vars
  /\ [][\A b \in Decos :
          (/\ dc.constructed
           /\ \E a \in Decos \ {b} : dc.ended[a]
           /\ dc.held = b /\ dc'.held = b /\ dc'.pointer # dc.pointer)
          => dc'.pos[b] = dragTarget(dc.downPos, dc.downAt, dc'.pointer)]_vars

\* C23 (as stated): between a pointer-up and the next pointer-down on it a
\* decoration keeps its translation P; and where the decorations are
\* draggable, the next drag of a decoration released before moves it to
\* clamp(P + d) for a displacement d of the pointer since the pointer-down.
C23_NextDragContinuesFromRest ==
  /\ [][\A el \in Decos :
          (dc.ended[el] /\ dc.held # el /\ dc'.held # el) =>
            dc'.pos[el] = dc.pos[el]]_vars
  /\ [][\A el \in Decos :
          (/\ dc.constructed /\ dc.ended[el]
           /\ dc.held = el /\ dc'.held = el /\ dc'.pointer # dc.pointer)
          => dc'.pos[el] = dragTarget(dc.downPos, dc.downAt, dc'.pointer)]_vars

(***************************************************************************)
(* Claims about the touched state of the portfolio items                   *)
(***************************************************************************)

\* C20: at most one portfolio item carries the touched class.
C20_AtMostOneTouched ==
  Cardinality({i \in Items : pf.touched[i]}) <= 1

\* C20 witness: a tap on the second item found the first one touched, and
\* left the second touched and the first not.
C20_Witness ==
  /\ pf.before[1] /\ ~pf.before[2]
  /\ pf.touched[2] /\ ~pf.touched[1]

====
